---- MODULE Spec2Model ----
(***************************************************************************)
(* A model of time_capture.py: the interval-overlap arithmetic             *)
(* (calc_time_overlap, get_breaks_duration, get_presence), the fixed-point *)
(* loop of get_target_time, and the update cycle with its stash file and   *)
(* its log file.                                                           *)
(*                                                                         *)
(* Time is counted in ticks, the resolution of datetime (a microsecond in  *)
(* the program).  A minute holds SecsPerMin ticks and a day MinsPerDay     *)
(* minutes.  A datetime.datetime is the record Datetime(d, m, s): calendar *)
(* date d, minute m of that day, sub-minute part s.  A datetime.time is    *)
(* Time(m, s).  A datetime.timedelta is an integer number of ticks.        *)
(***************************************************************************)
EXTENDS Integers, Sequences, FiniteSets, TLC

\* ------------------------------------------------------------------ bounds
MinsPerDay == 3
SecsPerMin == 2
MaxDate == 2
MaxBreaks == 2
MaxTarget == 3
MaxCycles == 3

DayTicks == MinsPerDay * SecsPerMin

\* ------------------------------------------------------------------ values
Datetime(d, m, s) == [ty |-> "datetime", d |-> d, m |-> m, s |-> s]
Time(m, s) == [ty |-> "time", d |-> 0, m |-> m, s |-> s]

\* The position of a datetime on the time line, in ticks.
Ticks(dt) == (dt.d * MinsPerDay + dt.m) * SecsPerMin + dt.s

\* The datetime at a position of the time line (datetime + timedelta).
FromTicks(n) ==
    Datetime(n \div DayTicks, (n % DayTicks) \div SecsPerMin, n % SecsPerMin)

AddDelta(dt, delta) == FromTicks(Ticks(dt) + delta)

\* datetime.datetime.combine(date, value)
Combine(date, value) == Datetime(date, value.m, value.s)

\* max() and min() of two datetimes
MaxDt(a, b) == IF Ticks(b) > Ticks(a) THEN b ELSE a
MinDt(a, b) == IF Ticks(b) < Ticks(a) THEN b ELSE a

\* ---------------------------------------------------------- pure functions
set_dict_to_date(date, duration) ==
    [key \in DOMAIN duration |->
        IF duration[key].ty = "time"
        THEN Combine(date, duration[key])
        ELSE duration[key]]

NoClampOverlap(first, second) ==
    LET sec == set_dict_to_date(first.start.d, second)
        overlap_start == MaxDt(first.start, sec.start)
        overlap_end == MinDt(first.end, sec.end)
    IN  Ticks(overlap_end) - Ticks(overlap_start)

MaxEndOverlap(first, second) ==
    LET sec == set_dict_to_date(first.start.d, second)
        overlap_start == MaxDt(first.start, sec.start)
        overlap_end == MaxDt(first.end, sec.end)
    IN  IF Ticks(overlap_end) > Ticks(overlap_start)
        THEN Ticks(overlap_end) - Ticks(overlap_start)
        ELSE 0

EndDateOverlap(first, second) ==
    LET sec == set_dict_to_date(first.end.d, second)
        overlap_start == MaxDt(first.start, sec.start)
        overlap_end == MinDt(first.end, sec.end)
    IN  IF Ticks(overlap_end) > Ticks(overlap_start)
        THEN Ticks(overlap_end) - Ticks(overlap_start)
        ELSE 0

calc_time_overlap(first, second) ==
    LET sec == set_dict_to_date(first.start.d, second)
        overlap_start == MaxDt(first.start, sec.start)
        overlap_end == MinDt(first.end, sec.end)
    IN  IF Ticks(overlap_end) > Ticks(overlap_start)
        THEN Ticks(overlap_end) - Ticks(overlap_start)
        ELSE 0

RECURSIVE get_breaks_duration(_, _)
get_breaks_duration(wk, brks) ==
    IF brks = << >>
    THEN 0
    ELSE calc_time_overlap(wk, Head(brks)) + get_breaks_duration(wk, Tail(brks))

get_presence(wk, brks) ==
    Ticks(wk.end) - Ticks(wk.start) - get_breaks_duration(wk, brks)

\* ------------------------------------------------------------------ inputs
Minutes == 0 .. (MinsPerDay - 1)
Dates == 0 .. MaxDate

\* Breaks as the stash holds them (two times of day, in either order), and
\* breaks given as datetimes that run past midnight, which no time-of-day
\* break can express.
TimeBreaks ==
    {[start |-> Time(a, 0), end |-> Time(b, 0)] : a \in Minutes, b \in Minutes}
DatetimeBreaks ==
    {[start |-> Datetime(0, MinsPerDay - 1, 0), end |-> Datetime(1, b, 0)] :
        b \in {0, MinsPerDay - 1}}
BreakPool == TimeBreaks \cup DatetimeBreaks

BreakLists == UNION {[1 .. n -> BreakPool] : n \in 0 .. MaxBreaks}

\* The lists get_target_time is run on: one order of every choice of breaks
\* (get_breaks_duration adds the overlaps up, whatever their order).
BreakKey(b) ==
    ((IF b.start.ty = "time" THEN 0 ELSE 1) * (2 * DayTicks)
        + Ticks(b.start)) * (2 * DayTicks) + Ticks(b.end)
OrderedBreakLists ==
    {l \in BreakLists :
        \A i \in 1 .. (Len(l) - 1) : BreakKey(l[i]) <= BreakKey(l[i + 1])}

\* A start at the full minute or just before the next.
StartInstants == {Datetime(0, m, s) : m \in Minutes, s \in {0, SecsPerMin - 1}}
WorkSpans ==
    {[start |-> Datetime(0, m, 0), end |-> Datetime(d, e, 0)] :
        m \in Minutes, d \in {0, 1}, e \in Minutes}
Targets == {t * SecsPerMin : t \in (-1) .. MaxTarget}

\* ------------------------------------------------------------------- state
VARIABLES
    stash,      \* the stash in memory: work and breaks
    argIn,      \* the arguments as they were passed
    pc,         \* where the computation stands
    second,     \* calc_time_overlap: index of the break passed as second
    overlap,    \* calc_time_overlap: its result
    presence,   \* get_presence: its result
    target,     \* get_target_time: the target
    work,       \* get_target_time: its local work span
    passes,     \* get_target_time: passes of the loop made so far
    stashFile,  \* update: timeStash.json
    logFile,    \* update: the lines appended to the csv log
    now,        \* update: the now of the last cycle
    outcome,    \* update: how the last cycle ended, "ok" or "error"
    written,    \* update: whether the last cycle wrote the stash file
    memStash,   \* update: the stash the last cycle held in memory
    preFile,    \* update: the stash file as the last cycle found it
    preLog,     \* update: the log as the last cycle found it
    lastOp,     \* update: "update" after a cycle, "edit" after an edit of the file
    repeated,   \* update: the last cycle followed a cycle with the same now
    prevOutcome,\* update: the outcome of the cycle before the last
    monotone,   \* update: now has never decreased from one cycle to the next
    cycles      \* update: cycles run so far

calcVars == <<stash, argIn, pc, second, overlap, presence, target, work, passes>>
updVars == <<stashFile, logFile, now, outcome, written, memStash, preFile,
             preLog, lastOp, repeated, prevOutcome, monotone, cycles>>
vars == <<calcVars, updVars>>

NoWork == [start |-> Datetime(0, 0, 0), end |-> Datetime(0, 0, 0)]

\* No stash in memory; no stash file; a stash file that is no valid JSON.
NoStash == [log |-> FALSE, work |-> NoWork, breaks |-> << >>, targets |-> << >>]
NoFile == [kind |-> "absent", log |-> FALSE, work |-> NoWork, breaks |-> << >>,
           targets |-> << >>]
InvalidFile == [kind |-> "invalid", log |-> FALSE, work |-> NoWork,
                breaks |-> << >>, targets |-> << >>]

\* The update cycle's state while only the pure functions are exercised.
UpdateIdle ==
    /\ stashFile = NoFile
    /\ logFile = << >>
    /\ now = Datetime(0, 0, 0)
    /\ outcome = "ok"
    /\ written = FALSE
    /\ memStash = NoStash
    /\ preFile = NoFile
    /\ preLog = << >>
    /\ lastOp = "none"
    /\ repeated = FALSE
    /\ prevOutcome = "ok"
    /\ monotone = TRUE
    /\ cycles = 0

\* --------------------------------------------- calc_time_overlap, presence
InitCalc ==
    /\ \E w \in WorkSpans, b \in BreakLists : stash = [work |-> w, breaks |-> b]
    /\ argIn = stash
    /\ pc = "input"
    /\ second = 0
    /\ overlap = 0
    /\ presence = 0
    /\ target = 0
    /\ work = NoWork
    /\ passes = 0
    /\ UpdateIdle

CalcOverlap ==
    /\ pc = "input"
    /\ \E i \in 1 .. Len(stash.breaks) :
        /\ second' = i
        /\ overlap' = calc_time_overlap(stash.work, stash.breaks[i])
    /\ pc' = "overlap"
    /\ UNCHANGED <<stash, argIn, presence, target, work, passes>>
    /\ UNCHANGED updVars

GetPresence ==
    /\ pc = "input"
    /\ presence' = get_presence(stash.work, stash.breaks)
    /\ pc' = "presence"
    /\ UNCHANGED <<stash, argIn, second, overlap, target, work, passes>>
    /\ UNCHANGED updVars

NextCalc == CalcOverlap \/ GetPresence

SpecCalc == InitCalc /\ [][NextCalc]_vars

\* --------------------------------------------------------- get_target_time
InitTarget ==
    /\ \E s \in StartInstants, b \in OrderedBreakLists :
        stash = [work |-> [start |-> s, end |-> s], breaks |-> b]
    /\ argIn = stash
    /\ target \in Targets
    /\ pc = "call"
    /\ second = 0
    /\ overlap = 0
    /\ presence = 0
    /\ work = NoWork
    /\ passes = 0
    /\ UpdateIdle

\* lines 212-214: the naive projection
Enter ==
    /\ pc = "call"
    /\ work' = [start |-> stash.work.start,
                end |-> AddDelta(stash.work.start, target)]
    /\ pc' = "loop"
    /\ UNCHANGED <<stash, argIn, second, overlap, presence, target, passes>>
    /\ UNCHANGED updVars

\* No pass can be needed beyond this many: every advancing pass moves end
\* forward by at least one tick, and end stops at the latest at start +
\* target + the lengths of all breaks.
MaxPasses == 1 + MaxBreaks * 2 * DayTicks

\* A loop that pushes end by the break time found instead of the missing time.
PassAddsBreaks ==
    /\ pc = "loop"
    /\ passes < MaxPasses
    /\ LET p == get_presence(work, stash.breaks)
           missing_time == target - p
       IN  /\ presence' = p
           /\ IF missing_time > 0
              THEN /\ work' = [work EXCEPT !.end =
                        AddDelta(work.end, get_breaks_duration(work, stash.breaks))]
                   /\ pc' = "loop"
              ELSE /\ work' = work
                   /\ pc' = "done"
    /\ passes' = passes + 1
    /\ UNCHANGED <<stash, argIn, second, overlap, target>>
    /\ UNCHANGED updVars

\* A loop that sets end from start instead of advancing it.
PassFromStart ==
    /\ pc = "loop"
    /\ passes < MaxPasses
    /\ LET p == get_presence(work, stash.breaks)
           missing_time == target - p
       IN  /\ presence' = p
           /\ IF missing_time > 0
              THEN /\ work' = [work EXCEPT !.end = AddDelta(work.start, missing_time)]
                   /\ pc' = "loop"
              ELSE /\ work' = work
                   /\ pc' = "done"
    /\ passes' = passes + 1
    /\ UNCHANGED <<stash, argIn, second, overlap, target>>
    /\ UNCHANGED updVars

\* one pass of the while loop: lines 218-224
Pass ==
    /\ pc = "loop"
    /\ passes < MaxPasses
    /\ LET p == get_presence(work, stash.breaks)
           missing_time == target - p
       IN  /\ presence' = p
           /\ IF missing_time > 0
              THEN /\ work' = [work EXCEPT !.end = AddDelta(work.end, missing_time)]
                   /\ pc' = "loop"
              ELSE /\ work' = work
                   /\ pc' = "done"
    /\ passes' = passes + 1
    /\ UNCHANGED <<stash, argIn, second, overlap, target>>
    /\ UNCHANGED updVars

NextTarget == Enter \/ Pass

SpecTarget == InitTarget /\ [][NextTarget]_vars

SpecTargetFair == SpecTarget /\ WF_vars(NextTarget)

\* ------------------------------------------------------------ the stash file
\* A JSON string: a timestamp 'YYYY-MM-DDTHH:MM', a time 'HH:MM', or other text.
TsStr(d, m) == [ty |-> "str_ts", d |-> d, m |-> m, s |-> 0]
HmStr(m) == [ty |-> "str_hm", d |-> 0, m |-> m, s |-> 0]
OtherStr == [ty |-> "str_other", d |-> 0, m |-> 0, s |-> 0]

\* strftime('%Y-%m-%d'): a format without the time of day.
DateOnlyString(obj) ==
    IF obj.ty = "datetime" THEN OtherStr ELSE HmStr(obj.m)

datetime_to_string(obj) ==
    IF obj.ty = "datetime" THEN TsStr(obj.d, obj.m) ELSE HmStr(obj.m)

\* json.dump calls default only for what JSON cannot hold itself
dump_value(value) ==
    IF value.ty \in {"datetime", "time"} THEN datetime_to_string(value) ELSE value

string_to_datetime(obj) ==
    [key \in DOMAIN obj |->
        IF obj[key].ty = "str_ts" THEN Datetime(obj[key].d, obj[key].m, 0)
        ELSE IF obj[key].ty = "str_hm" THEN Time(obj[key].m, 0)
        ELSE obj[key]]

json_load(file) ==
    [log |-> file.log,
     work |-> string_to_datetime(file.work),
     breaks |-> [i \in DOMAIN file.breaks |-> string_to_datetime(file.breaks[i])],
     targets |-> file.targets]

json_dump(st) ==
    [kind |-> "json",
     log |-> st.log,
     work |-> [key \in DOMAIN st.work |-> dump_value(st.work[key])],
     breaks |-> [i \in DOMAIN st.breaks |->
                    [key \in DOMAIN st.breaks[i] |-> dump_value(st.breaks[i][key])]],
     targets |-> st.targets]

\* The two default breaks, one after the other, on the short day of the model.
init_stash(n) ==
    [log |-> TRUE,
     work |-> [start |-> n, end |-> n],
     breaks |-> <<[start |-> Time(0, 0), end |-> Time(1, 0)],
                  [start |-> Time(1, 0), end |-> Time(2, 0)]>>,
     targets |-> <<480, 600>>]

\* raised is TRUE when json.load raises (JSONDecodeError is no IOError)
get_stash(file, n) ==
    IF file.kind = "absent" THEN [raised |-> FALSE, stash |-> init_stash(n)]
    ELSE IF file.kind = "invalid" THEN [raised |-> TRUE, stash |-> NoStash]
    ELSE [raised |-> FALSE, stash |-> json_load(file)]

\* get_presence raises TypeError on a value that is no datetime or time
presence_raises(wk, brks) ==
    \/ wk.start.ty # "datetime"
    \/ wk.end.ty # "datetime"
    \/ \E i \in DOMAIN brks :
        \/ brks[i].start.ty \notin {"datetime", "time"}
        \/ brks[i].end.ty \notin {"datetime", "time"}

\* str(timedelta) up to its last colon: the whole minutes
get_hour_minute_str(timedelta) == timedelta \div SecsPerMin

WriteLogNoBreaks(log, st) ==
    Append(log, [d |-> st.work.start.d,
                 start |-> st.work.start.m,
                 end |-> st.work.end.m,
                 presence |-> get_hour_minute_str(
                     Ticks(st.work.end) - Ticks(st.work.start))])

write_log(log, st) ==
    Append(log, [d |-> st.work.start.d,
                 start |-> st.work.start.m,
                 end |-> st.work.end.m,
                 presence |-> get_hour_minute_str(
                     get_presence(st.work, st.breaks))])

InstantChanged(st, n) == n # st.work.start

\* line 40: now.date() != stash['work']['start'].date()
date_changed(st, n) == n.d # st.work.start.d

KeepStart(st, n) == st

\* line 44
reset_start(st, n) == [st EXCEPT !.work.start = n]

Failed(file, log) ==
    [file |-> file, log |-> log, mem |-> NoStash, outcome |-> "error",
     written |-> FALSE]

\* update(path, now): what it leaves behind, given the files it finds
update(file, log, n) ==
    LET got == get_stash(file, n)
        st == got.stash
    IN  IF got.raised
        THEN Failed(file, log)
        ELSE IF st.work.start.ty # "datetime"
        THEN Failed(file, log)
        ELSE LET changed == date_changed(st, n)
                 logging == changed /\ st.log
             IN  IF logging /\ presence_raises(st.work, st.breaks)
                 THEN Failed(file, log)
                 ELSE LET log2 == IF logging THEN write_log(log, st) ELSE log
                          st2 == IF changed THEN reset_start(st, n) ELSE st
                          st3 == [st2 EXCEPT !.work.end = n]
                      IN  [file |-> json_dump(st3),
                           log |-> log2,
                           mem |-> st3,
                           outcome |-> IF presence_raises(st3.work, st3.breaks)
                                       THEN "error" ELSE "ok",
                           written |-> TRUE]

\* The instants at which the program is run: on every date, in the first and
\* in the last minute of the day, at the full minute and just before the next.
Nows ==
    {Datetime(d, m, s) :
        d \in Dates, m \in {0, MinsPerDay - 1}, s \in {0, SecsPerMin - 1}}

\* What a user writes into the breaks of the stash file.
EditedBreaks ==
    {<< >>,
     <<[start |-> HmStr(0), end |-> HmStr(2)], [start |-> HmStr(1), end |-> HmStr(2)]>>,
     <<[start |-> OtherStr, end |-> HmStr(1)]>>}

\* The stash file after a user has edited it.
Edits(file) ==
    {NoFile, InvalidFile}
    \cup (IF file.kind = "json"
          THEN {[file EXCEPT !.log = ~ file.log],
                [file EXCEPT !.work.start = OtherStr],
                [file EXCEPT !.work.end = OtherStr]}
               \cup {[file EXCEPT !.breaks = b] : b \in EditedBreaks}
          ELSE {})

InitUpdate ==
    /\ stash = [work |-> NoWork, breaks |-> << >>]
    /\ argIn = stash
    /\ pc = "update"
    /\ second = 0
    /\ overlap = 0
    /\ presence = 0
    /\ target = 0
    /\ work = NoWork
    /\ passes = 0
    /\ stashFile = NoFile
    /\ logFile = << >>
    /\ now = Datetime(0, 0, 0)
    /\ outcome = "ok"
    /\ written = FALSE
    /\ memStash = NoStash
    /\ preFile = NoFile
    /\ preLog = << >>
    /\ lastOp = "none"
    /\ repeated = FALSE
    /\ prevOutcome = "ok"
    /\ monotone = TRUE
    /\ cycles = 0

\* One run of the program: main() calls update(path, now).
Update ==
    /\ cycles < MaxCycles
    /\ \E n \in Nows :
        LET r == update(stashFile, logFile, n)
        IN  /\ stashFile' = r.file
            /\ logFile' = r.log
            /\ memStash' = r.mem
            /\ outcome' = r.outcome
            /\ written' = r.written
            /\ now' = n
            /\ repeated' = (lastOp = "update" /\ n = now)
            /\ monotone' = (monotone /\ (cycles = 0 \/ Ticks(n) >= Ticks(now)))
    /\ preFile' = stashFile
    /\ preLog' = logFile
    /\ prevOutcome' = outcome
    /\ lastOp' = "update"
    /\ cycles' = cycles + 1
    /\ UNCHANGED calcVars

\* Between two runs a user edits, corrupts or removes the stash file.
UserEdit ==
    /\ lastOp = "update"
    /\ stashFile' \in Edits(stashFile) \ {stashFile}
    /\ lastOp' = "edit"
    /\ UNCHANGED <<logFile, now, outcome, written, memStash, preFile, preLog,
                   repeated, prevOutcome, monotone, cycles>>
    /\ UNCHANGED calcVars

NextUpdate == Update \/ UserEdit

SpecUpdate == InitUpdate /\ [][NextUpdate]_vars

\* ------------------------------------------------------------------ claims
\* A break with its times of day placed on the calendar date of an instant.
OnDateOf(instant, b) ==
    [start |-> IF b.start.ty = "time"
               THEN Datetime(instant.d, b.start.m, b.start.s) ELSE b.start,
     end |-> IF b.end.ty = "time"
             THEN Datetime(instant.d, b.end.m, b.end.s) ELSE b.end]

Larger(x, y) == IF x >= y THEN x ELSE y
Smaller(x, y) == IF x <= y THEN x ELSE y

\* max(0, min(a.end, b.end) - max(a.start, b.start)) of two datetime spans
SharedTicks(a, b) ==
    Larger(0, Smaller(Ticks(a.end), Ticks(b.end))
              - Larger(Ticks(a.start), Ticks(b.start)))

\* No tick lies in both spans.
Apart(a, b) ==
    \A t \in Ticks(a.start) .. (Ticks(a.end) - 1) :
        ~ (Ticks(b.start) <= t /\ t < Ticks(b.end))

\* The window of get_target_time: from the start passed in to the current end.
Window == [start |-> stash.work.start, end |-> work.end]

\* C4: calc_time_overlap(first, second) is max(0, min(ends) - max(starts)), a
\* time-of-day second being placed on the date of first.start; it is never
\* negative, it is zero when the spans share no time or when one of them ends
\* before it starts, and the arguments are left as they were passed.
C4_OverlapFormula ==
    pc = "overlap" =>
        LET first == stash.work
            sec == OnDateOf(first.start, stash.breaks[second])
        IN  /\ overlap = SharedTicks(first, sec)
            /\ overlap >= 0
            /\ Apart(first, sec) => overlap = 0
            /\ Ticks(first.end) < Ticks(first.start) => overlap = 0
            /\ Ticks(sec.end) < Ticks(sec.start) => overlap = 0
            /\ stash = argIn

\* A time-of-day break was measured against a work span that ends on the day
\* after it starts, and they share time.
C4_Witness ==
    /\ pc = "overlap"
    /\ overlap > 0
    /\ stash.breaks[second].start.ty = "time"
    /\ stash.work.end.d # stash.work.start.d

\* Two breaks of the list, placed on the date of the work start, share time.
BreaksOverlap(wk, brks) ==
    \E i, j \in 1 .. Len(brks) :
        /\ i < j
        /\ SharedTicks(OnDateOf(wk.start, brks[i]), OnDateOf(wk.start, brks[j])) > 0

\* C5 as stated: the presence of a work span that does not end before it
\* starts is never negative, whatever the break list.
C5_NonNegative ==
    (pc = "presence" /\ Ticks(stash.work.end) >= Ticks(stash.work.start))
        => presence >= 0

\* C5 amended: the presence is the span minus the sum of the overlaps, and it
\* is negative only if the work span ends before it starts or two breaks of
\* the list share time (which the sum counts twice).
C5_NonNegativeDisjoint ==
    pc = "presence" =>
        /\ presence = Ticks(stash.work.end) - Ticks(stash.work.start)
                        - get_breaks_duration(stash.work, stash.breaks)
        /\ presence < 0 =>
            \/ Ticks(stash.work.end) < Ticks(stash.work.start)
            \/ BreaksOverlap(stash.work, stash.breaks)

\* Two breaks that share no time both cut into a work span.
C5_Witness ==
    /\ pc = "presence"
    /\ Len(stash.breaks) = 2
    /\ ~ BreaksOverlap(stash.work, stash.breaks)
    /\ calc_time_overlap(stash.work, stash.breaks[1]) > 0
    /\ calc_time_overlap(stash.work, stash.breaks[2]) > 0
    /\ presence > 0

\* C1: the instant get_target_time returns has exactly the target as the
\* presence of the span from start to it.
C1_PresenceIsTarget ==
    pc = "done" => get_presence(Window, stash.breaks) = target

\* The loop returned after pushing end over breaks at least twice.
C1_Witness ==
    /\ pc = "done"
    /\ passes >= 3
    /\ get_breaks_duration(Window, stash.breaks) > 0

\* C2: the loop ends for every start, break list and target, and for a target
\* that is not positive it ends on its first check with end = start + target.
C2_Terminates ==
    /\ <>(pc = "done")
    /\ [](pc = "done" /\ target <= 0 =>
            /\ passes = 1
            /\ work.end = AddDelta(stash.work.start, target))

\* The loop ended after more than one pass with a break in the list that ends
\* before it starts.
C2_Witness ==
    /\ pc = "done"
    /\ passes > 1
    /\ \E i \in 1 .. Len(stash.breaks) :
        LET b == OnDateOf(stash.work.start, stash.breaks[i])
        IN  Ticks(b.end) < Ticks(b.start)

\* The breaks of the list that touch the closed window.
Intersecting ==
    {i \in 1 .. Len(stash.breaks) :
        LET b == OnDateOf(stash.work.start, stash.breaks[i])
        IN  /\ Ticks(b.start) <= Ticks(Window.end)
            /\ Ticks(b.end) >= Ticks(Window.start)}

\* C3 as stated: the loop makes at most one pass more than there are breaks
\* that intersect the final window.
C3_PassesByBreaks ==
    pc = "done" => passes <= Cardinality(Intersecting) + 1

\* C3 amended: the loop makes at most one pass more than there are ticks of
\* break time in the final window (every pass but the last moves end forward
\* by at least one tick, and end moves by the break time in all).
C3_PassesByBreakTime ==
    /\ pc = "done" =>
        /\ passes <= get_breaks_duration(Window, stash.breaks) + 1
        /\ target > 0 =>
            Ticks(work.end) = Ticks(stash.work.start) + target
                                + get_breaks_duration(Window, stash.breaks)
    /\ pc = "loop" => passes <= Ticks(work.end) - Ticks(stash.work.start) - target

\* The naive end fell inside the only break and the loop needed more passes
\* than breaks plus one.
C3_Witness ==
    /\ pc = "done"
    /\ Len(stash.breaks) = 1
    /\ passes > 2

\* C10: for a target that is not negative the loop never overshoots: at every
\* pass the presence up to end is at most the target, and no instant before the
\* returned one already has the target as its presence.
C10_Earliest ==
    (pc \in {"loop", "done"} /\ target >= 0) =>
        /\ get_presence(Window, stash.breaks) <= target
        /\ pc = "done" =>
            \A t \in Ticks(Window.start) .. (Ticks(Window.end) - 1) :
                get_presence([start |-> Window.start, end |-> FromTicks(t)],
                             stash.breaks) < target

\* The loop returned over two breaks that share time.
C10_Witness ==
    /\ pc = "done"
    /\ target > 0
    /\ passes >= 2
    /\ BreaksOverlap(stash.work, stash.breaks)
    /\ \A i \in 1 .. Len(stash.breaks) :
        calc_time_overlap(Window, stash.breaks[i]) > 0

\* The stash file holds something that is not in the expected format.
Malformed(file) ==
    \/ file.kind = "invalid"
    \/ /\ file.kind = "json"
       /\ \/ file.work.start.ty # "str_ts"
          \/ file.work.end.ty # "str_ts"
          \/ \E i \in DOMAIN file.breaks :
                \/ file.breaks[i].start.ty # "str_hm"
                \/ file.breaks[i].end.ty # "str_hm"

\* C6: a cycle that finds a malformed stash file ends in an error and writes
\* neither the stash file nor the log; a cycle that finds no stash file is no
\* error and starts from the default stash.
C6_FailFast ==
    lastOp = "update" =>
        /\ Malformed(preFile) =>
            /\ outcome = "error"
            /\ stashFile = preFile
            /\ logFile = preLog
        /\ preFile.kind = "absent" =>
            /\ outcome = "ok"
            /\ memStash = init_stash(now)

\* The stash the last cycle started from: the file it found, or the default.
PreStash == get_stash(preFile, now).stash

\* An instant without its sub-minute part.
WholeMinute(v) == [v EXCEPT !.s = 0]

Logged == Len(logFile) = Len(preLog) + 1

\* What C7 says of a completed cycle, but for the value of work.end.
LogRule ==
    /\ Logged <=> (PreStash.log /\ now.d # PreStash.work.start.d)
    /\ ~ Logged => logFile = preLog
    /\ Logged =>
        /\ SubSeq(logFile, 1, Len(preLog)) = preLog
        /\ logFile[Len(logFile)] =
            [d |-> PreStash.work.start.d,
             start |-> PreStash.work.start.m,
             end |-> PreStash.work.end.m,
             presence |->
                (Ticks(PreStash.work.end) - Ticks(PreStash.work.start)
                    - get_breaks_duration(PreStash.work, PreStash.breaks))
                \div SecsPerMin]
    /\ json_load(stashFile).work.start.d = now.d
    /\ (preFile.kind = "json" /\ now.d = PreStash.work.start.d) =>
        json_load(stashFile).work.start = PreStash.work.start
    /\ monotone =>
        \A i, j \in 1 .. Len(logFile) : i < j => logFile[i].d # logFile[j].d

\* C7 as stated: a completed cycle appends a log record exactly when the log
\* flag is set and the date of now is not the date of the stored work.start;
\* the record carries the stored start, the stored end and their presence;
\* afterwards the stored work.end is now and the stored work.start has the date
\* of now (unchanged if the date did not change); with a clock that never goes
\* back the log holds at most one record per date.
C7_LogAndState ==
    (lastOp = "update" /\ outcome = "ok") =>
        /\ LogRule
        /\ json_load(stashFile).work.end = now

\* C7 amended: the same, with the stored work.end being now without its
\* seconds and sub-second part.
C7_LogAndStateMinutes ==
    (lastOp = "update" /\ outcome = "ok") =>
        /\ LogRule
        /\ json_load(stashFile).work.end = WholeMinute(now)
        /\ (preFile.kind = "absent" \/ now.d # PreStash.work.start.d) =>
            json_load(stashFile).work.start = WholeMinute(now)

\* A cycle on a new date has appended a record for a day whose work span held
\* break time and ended in another minute than now, and the clock has never
\* gone back.
C7_Witness ==
    /\ lastOp = "update"
    /\ outcome = "ok"
    /\ monotone
    /\ Logged
    /\ get_breaks_duration(PreStash.work, PreStash.breaks) > 0
    /\ PreStash.work.end.m # now.m
    /\ now.s # 0

\* C8 as stated: a cycle run with the now of the cycle just before it appends
\* no log record and leaves the stash file as that cycle left it, with
\* work.end = now.
C8_Idempotent ==
    (lastOp = "update" /\ repeated) =>
        /\ logFile = preLog
        /\ stashFile = preFile
        /\ (outcome = "ok" /\ prevOutcome = "ok") =>
            json_load(stashFile).work.end = now

\* C8 amended: the same, with work.end = now without its seconds and
\* sub-second part.
C8_IdempotentMinutes ==
    (lastOp = "update" /\ repeated) =>
        /\ logFile = preLog
        /\ stashFile = preFile
        /\ (outcome = "ok" /\ prevOutcome = "ok") =>
            json_load(stashFile).work.end = WholeMinute(now)

\* Two completed cycles with the same now, which has a sub-minute part, the
\* first of them on a new date of a logging stash.
C8_Witness ==
    /\ lastOp = "update"
    /\ repeated
    /\ outcome = "ok"
    /\ prevOutcome = "ok"
    /\ now.s # 0
    /\ Len(logFile) > 0
    /\ logFile[Len(logFile)].d # now.d
    /\ json_load(stashFile).work.start = WholeMinute(now)

\* A stash with every datetime and time cut to the whole minute.
WholeMinutes(st) ==
    [st EXCEPT
        !.work = [key \in DOMAIN st.work |-> WholeMinute(st.work[key])],
        !.breaks = [i \in DOMAIN st.breaks |->
                       [key \in DOMAIN st.breaks[i] |->
                           WholeMinute(st.breaks[i][key])]]]

\* C9 as stated: writing the stash a cycle holds in memory and reading it back
\* gives the same datetimes, times, targets and log flag.
C9_RoundTrip ==
    (lastOp = "update" /\ written) =>
        json_load(json_dump(memStash)) = memStash

\* C9 amended: reading back what was written gives every datetime and time cut
\* to the whole minute (the same value when it has no seconds), and the same
\* targets and log flag.
C9_RoundTripMinutes ==
    (lastOp = "update" /\ written) =>
        /\ stashFile = json_dump(memStash)
        /\ json_load(stashFile) = WholeMinutes(memStash)
        /\ json_load(stashFile).targets = memStash.targets
        /\ json_load(stashFile).log = memStash.log
        /\ (memStash.work.start.s = 0 /\ memStash.work.end.s = 0) =>
            json_load(stashFile) = memStash

\* A cycle wrote a stash whose work.end has a sub-minute part and whose
\* work.start, read from the file, has none.
C9_Witness ==
    /\ lastOp = "update"
    /\ written
    /\ outcome = "ok"
    /\ now.s # 0
    /\ memStash.work.end = now
    /\ memStash.work.start.s = 0
    /\ Len(memStash.breaks) = 2

====
